---- MODULE Spec2Model ----
(***************************************************************************)
(* A model of quickcfg's convergence ledger (src/src/state.rs: DiskState,  *)
(* State) and of its hierarchy layer store (src/src/hierarchy.rs: Data).   *)
(*                                                                         *)
(* Spec      the ledger: construction, touch, touch_once, touch_hash,      *)
(*           extend, the read-only queries and serialize.                  *)
(* SpecHier  the layer store: load, load_or_default, load_array and        *)
(*           load_from_spec over a store fixed at construction.            *)
(* SpecDirective  load_from_spec over the texts of directives.             *)
(***************************************************************************)
EXTENDS Integers, Sequences, FiniteSets, TLC

VARIABLES
    ledger,     \* the State value under test: [dirty, last_update, once, hashes]
    snap,       \* history: the DiskState the ledger was constructed from
    mutated,    \* history: a mutating call has happened since construction
    merged,     \* history: an extend with a dirty argument has happened
    mergedOnce, \* history: the ids of the once maps merged in by extend
    written,    \* history: per map, the value the last touch* call wrote per key
    nops,       \* number of calls made on the ledger so far
    call,       \* the call that produced this state, with its arguments
    ret,        \* what that call returned
    data,       \* the Data value: the sequence of layers (Vec<Mapping>)
    environ,    \* the process environment read by env::var
    content,    \* the text handed to load_from_spec
    directive,  \* history: the lines and parts the text was written from
    templates,  \* the templates handed to the hierarchy loader, in order
    files,      \* the file system the loader opens the rendered paths in
    first,      \* history: the first lookup made on the store and its result
    pending,    \* the sub-ledger of each unit of work
    order       \* the units whose sub-ledger the aggregator has merged, in order

vars ==
    <<ledger, snap, mutated, merged, mergedOnce, written, nops, call, ret,
      data, environ, content, directive, templates, files, first, pending, order>>

history == <<snap, mutated, merged, mergedOnce, written>>
hierVars == <<data, environ, content, directive, templates, files, first>>
mergeVars == <<pending, order>>

----------------------------------------------------------------------------
(* Bounds of the model                                                     *)

\* timestamps are 0..MaxTime
MaxTime == 1
\* number of calls made on a ledger before it is serialized
MaxOps == 2
\* width in bits of the modelled digest (u64 in the program)
HashWidth == 6

Times == 0..MaxTime
Ids == {"x", "y"}

----------------------------------------------------------------------------
(* Option<T> and BTreeMap<String, T>                                       *)

None == [tag |-> "None"]
Some(v) == [tag |-> "Some", val |-> v]

\* BTreeMap::new / Default
EmptyMap == [k \in {} |-> 0]

\* BTreeMap::get
MapGet(m, k) == IF k \in DOMAIN m THEN Some(m[k]) ELSE None

\* BTreeMap::insert: the key is added, or its value is replaced
MapInsert(m, k, v) == [j \in (DOMAIN m) \cup {k} |-> IF j = k THEN v ELSE m[j]]

\* mutant of MapExtend: an entry already in m is kept
MapExtend_keep_existing(m, other) ==
    [j \in (DOMAIN m) \cup (DOMAIN other) |-> IF j \in DOMAIN m THEN m[j] ELSE other[j]]

\* BTreeMap::extend(other): every entry of other is inserted into m
MapExtend(m, other) ==
    [j \in (DOMAIN m) \cup (DOMAIN other) |-> IF j \in DOMAIN other THEN other[j] ELSE m[j]]

\* all maps from a subset of K to V
Maps(K, V) == UNION {[D -> V] : D \in SUBSET K}

----------------------------------------------------------------------------
(* The fingerprint: FxHasher64::default(), hash.hash(&mut state),          *)
(* state.finish().  FxHasher folds the words w the value feeds it with     *)
(*     h := (rotate_left(h, 5) XOR w) * SEED   (wrapping)                  *)
(* starting from 0.  The model keeps the algorithm and narrows the word    *)
(* from 64 to HashWidth bits; a hashed value is the sequence of words it   *)
(* writes to the hasher.                                                   *)

Modulus == 2 ^ HashWidth
Rotate == 5 % HashWidth
\* the low bits of fxhash's multiplier 0x517cc1b727220a95 (odd)
Seed == 149 % Modulus

RECURSIVE BitXor(_, _)
BitXor(a, b) ==
    IF a = 0 THEN b
    ELSE IF b = 0 THEN a
    ELSE (((a % 2) + (b % 2)) % 2) + (2 * BitXor(a \div 2, b \div 2))

RotateLeft(h) == ((h * (2 ^ Rotate)) % Modulus) + (h \div (2 ^ (HashWidth - Rotate)))

HashWord(h, w) == (BitXor(RotateLeft(h), w) * Seed) % Modulus

RECURSIVE HashWords(_, _)
HashWords(h, ws) == IF ws = <<>> THEN h ELSE HashWords(HashWord(h, Head(ws)), Tail(ws))

\* The values handed to touch_hash / is_hash_fresh: a one-word value, a two-word
\* value, and a two-word value V3 whose first word differs from V2's and whose
\* second word is V2's second word XOR the two rotated intermediate states.
V1 == <<1>>
V2 == <<1, 2>>
V3 == <<2, BitXor(2, BitXor(RotateLeft(HashWord(0, 1)), RotateLeft(HashWord(0, 2))))>>
Values == {V1, V2, V3}

\* the digest of each value, folded once
FingerprintOf == [value \in Values |-> HashWords(0, value)]

Fingerprint(value) == FingerprintOf[value]

Digests == {Fingerprint(v) : v \in Values}

\* struct Hashed
Hashed(h, t) == [hash |-> h, updated |-> t]
HashedRecords == {Hashed(h, t) : h \in Digests, t \in Times}

----------------------------------------------------------------------------
(* DiskState and State                                                     *)

\* DiskState::default(): every field #[serde(default)]
DiskState_default == [last_update |-> EmptyMap, once |-> EmptyMap, hashes |-> EmptyMap]

\* State::default(): #[derive(Default)]
State_default ==
    [dirty |-> FALSE, last_update |-> EmptyMap, once |-> EmptyMap, hashes |-> EmptyMap]

\* the fields of a snapshot
Fields == {"last_update", "once", "hashes"}

\* DiskState as deserialized from a snapshot document: every field is
\* #[serde(default)], so a field the document lacks is the empty map
DiskState_deserialize(doc) ==
    [f \in Fields |-> IF f \in DOMAIN doc THEN doc[f] ELSE EmptyMap]

\* mutant of to_state: the ledger starts out dirty
to_state_starts_dirty(disk) ==
    [dirty |-> TRUE, last_update |-> disk.last_update, once |-> disk.once,
     hashes |-> disk.hashes]

\* DiskState::to_state
to_state(disk) ==
    [dirty |-> FALSE,
     last_update |-> disk.last_update,
     once |-> disk.once,
     hashes |-> disk.hashes]

\* State::last_update
last_update(self, name) == MapGet(self.last_update, name)

\* mutant of touch: the entry is written and the flag is left alone
touch_keeps_flag(self, name, now) ==
    [self EXCEPT !.last_update = MapInsert(self.last_update, name, now)]

\* State::touch
touch(self, name, now) ==
    [self EXCEPT !.dirty = TRUE,
                 !.last_update = MapInsert(self.last_update, name, now)]

\* State::has_run_once
has_run_once(self, id) == id \in DOMAIN self.once

\* mutant of touch_once: an id already marked keeps its first timestamp
touch_once_keep_first(self, id, now) ==
    [self EXCEPT !.dirty = TRUE,
                 !.once = IF id \in DOMAIN self.once THEN self.once
                          ELSE MapInsert(self.once, id, now)]

\* State::touch_once
touch_once(self, id, now) ==
    [self EXCEPT !.dirty = TRUE,
                 !.once = MapInsert(self.once, id, now)]

\* mutant of is_hash_fresh: an id without a record counts as fresh
is_hash_fresh_unknown_is_fresh(self, id, hash) ==
    IF id \notin DOMAIN self.hashes
    THEN TRUE
    ELSE self.hashes[id].hash = Fingerprint(hash)

\* State::is_hash_fresh
is_hash_fresh(self, id, hash) ==
    IF id \notin DOMAIN self.hashes
    THEN FALSE
    ELSE self.hashes[id].hash = Fingerprint(hash)

\* mutant of touch_hash: the record is written and the flag is not set
touch_hash_keeps_flag(self, id, hash, now) ==
    [self EXCEPT !.hashes = MapInsert(self.hashes, id, Hashed(Fingerprint(hash), now))]

\* State::touch_hash
touch_hash(self, id, hash, now) ==
    [self EXCEPT !.dirty = TRUE,
                 !.hashes = MapInsert(self.hashes, id, Hashed(Fingerprint(hash), now))]

\* mutant of extend: the argument's flag is not looked at
extend_unconditional(self, other) ==
    [self EXCEPT !.dirty = TRUE,
                 !.last_update = MapExtend(self.last_update, other.last_update),
                 !.once = MapExtend(self.once, other.once)]

\* mutant of extend: the once map is replaced by the argument's
extend_replaces_once(self, other) ==
    IF ~other.dirty
    THEN self
    ELSE [self EXCEPT !.dirty = TRUE,
                      !.last_update = MapExtend(self.last_update, other.last_update),
                      !.once = other.once]

\* mutant of extend: the argument's fingerprint records are merged as well
extend_merges_hashes(self, other) ==
    IF ~other.dirty
    THEN self
    ELSE [self EXCEPT !.dirty = TRUE,
                      !.last_update = MapExtend(self.last_update, other.last_update),
                      !.once = MapExtend(self.once, other.once),
                      !.hashes = MapExtend(self.hashes, other.hashes)]

\* mutant of extend: the once map is not merged
extend_last_update_only(self, other) ==
    IF ~other.dirty
    THEN self
    ELSE [self EXCEPT !.dirty = TRUE,
                      !.last_update = MapExtend(self.last_update, other.last_update)]

\* State::extend
extend(self, other) ==
    IF ~other.dirty
    THEN self
    ELSE [self EXCEPT !.dirty = TRUE,
                      !.last_update = MapExtend(self.last_update, other.last_update),
                      !.once = MapExtend(self.once, other.once)]

\* mutant of serialize: the fingerprint records are left out
serialize_without_hashes(self) ==
    IF ~self.dirty
    THEN None
    ELSE Some([last_update |-> self.last_update,
               once |-> self.once,
               hashes |-> EmptyMap])

\* State::serialize
serialize(self) ==
    IF ~self.dirty
    THEN None
    ELSE Some([last_update |-> self.last_update,
               once |-> self.once,
               hashes |-> self.hashes])

----------------------------------------------------------------------------
(* The inputs: snapshots read from disk and ledgers handed to extend       *)

Entries(d) ==
    Cardinality(DOMAIN d.last_update) + Cardinality(DOMAIN d.once)
        + Cardinality(DOMAIN d.hashes)

\* the snapshot documents: any of the three fields may be missing, and the
\* fields there are hold at most one entry together
SnapshotDocs ==
    {[f \in D |-> d[f]] :
        D \in SUBSET Fields,
        d \in {d \in [last_update : Maps(Ids, Times), once : Maps(Ids, Times),
                      hashes : Maps(Ids, HashedRecords)] : Entries(d) <= 1}}

\* the snapshots read from them
DiskStates == {DiskState_deserialize(doc) : doc \in SnapshotDocs}

\* a sub-ledger: public fields, so any flag with any maps
SubLedgers == {[to_state(d) EXCEPT !.dirty = b] : d \in DiskStates, b \in BOOLEAN}

NoWrites == [last_update |-> EmptyMap, once |-> EmptyMap, hashes |-> EmptyMap]

----------------------------------------------------------------------------
(* The ledger's state machine                                              *)

Idle == [op |-> "new"]

Init ==
    /\ snap \in DiskStates
    /\ ledger \in {to_state(snap)} \cup (IF snap = DiskState_default THEN {State_default} ELSE {})
    /\ mutated = FALSE
    /\ merged = FALSE
    /\ mergedOnce = {}
    /\ written = NoWrites
    /\ nops = 0
    /\ call = Idle
    /\ ret = None
    /\ data = <<>>
    /\ environ = EmptyMap
    /\ content = <<>>
    /\ directive = <<>>
    /\ templates = <<>>
    /\ files = EmptyMap
    /\ first = None
    /\ pending = <<>>
    /\ order = <<>>

\* serialize(self) takes the ledger by value: no call follows it
Live == call.op # "serialize"

CanCall == Live /\ nops < MaxOps

Touch ==
    \E name \in Ids, now \in Times :
        /\ CanCall
        /\ ledger' = touch(ledger, name, now)
        /\ mutated' = TRUE
        /\ written' = [written EXCEPT !.last_update = MapInsert(@, name, now)]
        /\ nops' = nops + 1
        /\ call' = [op |-> "touch", id |-> name, now |-> now]
        /\ ret' = None
        /\ UNCHANGED <<snap, merged, mergedOnce, hierVars, mergeVars>>

TouchOnce ==
    \E id \in Ids, now \in Times :
        /\ CanCall
        /\ ledger' = touch_once(ledger, id, now)
        /\ mutated' = TRUE
        /\ written' = [written EXCEPT !.once = MapInsert(@, id, now)]
        /\ nops' = nops + 1
        /\ call' = [op |-> "touch_once", id |-> id, now |-> now]
        /\ ret' = None
        /\ UNCHANGED <<snap, merged, mergedOnce, hierVars, mergeVars>>

TouchHash ==
    \E id \in Ids, hash \in Values, now \in Times :
        /\ CanCall
        /\ ledger' = touch_hash(ledger, id, hash, now)
        /\ mutated' = TRUE
        /\ written' = [written EXCEPT !.hashes = MapInsert(@, id, [value |-> hash, now |-> now])]
        /\ nops' = nops + 1
        /\ call' = [op |-> "touch_hash", id |-> id, hash |-> hash, now |-> now]
        /\ ret' = None
        /\ UNCHANGED <<snap, merged, mergedOnce, hierVars, mergeVars>>

Extend ==
    \E other \in SubLedgers :
        /\ CanCall
        /\ ledger' = extend(ledger, other)
        /\ mutated' = (mutated \/ other.dirty)
        /\ merged' = (merged \/ other.dirty)
        /\ mergedOnce' = (IF other.dirty THEN mergedOnce \cup DOMAIN other.once ELSE mergedOnce)
        /\ nops' = nops + 1
        /\ call' = [op |-> "extend", other |-> other]
        /\ ret' = None
        /\ UNCHANGED <<snap, written, hierVars, mergeVars>>

LastUpdate ==
    \E name \in Ids :
        /\ CanCall
        /\ nops' = nops + 1
        /\ call' = [op |-> "last_update", id |-> name]
        /\ ret' = last_update(ledger, name)
        /\ UNCHANGED <<ledger, history, hierVars, mergeVars>>

HasRunOnce ==
    \E id \in Ids :
        /\ CanCall
        /\ nops' = nops + 1
        /\ call' = [op |-> "has_run_once", id |-> id]
        /\ ret' = Some(has_run_once(ledger, id))
        /\ UNCHANGED <<ledger, history, hierVars, mergeVars>>

IsHashFresh ==
    \E id \in Ids, hash \in Values :
        /\ CanCall
        /\ nops' = nops + 1
        /\ call' = [op |-> "is_hash_fresh", id |-> id, hash |-> hash]
        /\ ret' = Some(is_hash_fresh(ledger, id, hash))
        /\ UNCHANGED <<ledger, history, hierVars, mergeVars>>

Serialize ==
    /\ Live
    /\ call' = [op |-> "serialize"]
    /\ ret' = serialize(ledger)
    /\ UNCHANGED <<ledger, history, nops, hierVars, mergeVars>>

Next ==
    \/ Touch
    \/ TouchOnce
    \/ TouchHash
    \/ Extend
    \/ LastUpdate
    \/ HasRunOnce
    \/ IsHashFresh
    \/ Serialize

Spec == Init /\ [][Next]_vars

----------------------------------------------------------------------------
(* serde_yaml values, Result, and the text a directive is read from        *)

Ok(v) == [tag |-> "Ok", val |-> v]
Err(e) == [tag |-> "Err", err |-> e]

\* serde_yaml::Value
Null == [kind |-> "Null"]
Str(s) == [kind |-> "String", s |-> s]
Sequence(items) == [kind |-> "Sequence", items |-> items]

\* T::deserialize(value) for the requested shapes T: Value takes any value,
\* String takes a string value only
Deserialize(T, value) ==
    IF T = "Value" THEN Ok(value)
    ELSE IF value.kind = "String" THEN Ok(value.s)
    ELSE Err("invalid type")

\* <Vec<T> as Deserialize>::deserialize(value): a sequence whose every element
\* deserializes as T
DeserializeVec(T, value) ==
    IF value.kind # "Sequence" THEN Err("invalid type")
    ELSE IF \E i \in 1..Len(value.items) : Deserialize(T, value.items[i]).tag = "Err"
    THEN Err("invalid type")
    ELSE Ok([i \in 1..Len(value.items) |-> Deserialize(T, value.items[i]).val])

\* T::default()
Default(T) == IF T = "Value" THEN Null ELSE ""

\* text is a sequence of characters
HEADER == <<"q", "u", "i", "c", "k", "c", "f", "g", ":">>

IsWhitespace(c) == c \in {" ", "\t", "\r", "\n"}

\* str::trim
RECURSIVE TrimStart(_)
TrimStart(s) ==
    IF s # <<>> /\ IsWhitespace(Head(s)) THEN TrimStart(Tail(s)) ELSE s

RECURSIVE TrimEnd(_)
TrimEnd(s) ==
    IF s # <<>> /\ IsWhitespace(s[Len(s)]) THEN TrimEnd(SubSeq(s, 1, Len(s) - 1)) ELSE s

Trim(s) == TrimEnd(TrimStart(s))

\* str::find(pattern): the 0-based index of the first occurrence
Find(s, p) ==
    LET hits == {i \in 0..(Len(s) - Len(p)) : SubSeq(s, i + 1, i + Len(p)) = p}
    IN  IF hits = {} THEN None
        ELSE Some(CHOOSE i \in hits : \A j \in hits : i <= j)

\* str::split(sep) for a one-character separator: n separators give n + 1 pieces
RECURSIVE SplitFrom(_, _, _)
SplitFrom(s, sep, piece) ==
    IF s = <<>> THEN <<piece>>
    ELSE IF Head(s) = sep THEN <<piece>> \o SplitFrom(Tail(s), sep, <<>>)
    ELSE SplitFrom(Tail(s), sep, Append(piece, Head(s)))

Split(s, sep) == SplitFrom(s, sep, <<>>)

\* str::splitn(2, sep): the text before the first separator and, when there is
\* one, everything after it
SplitN2(s, sep) ==
    LET at == Find(s, <<sep>>)
    IN  IF at = None THEN <<s>>
        ELSE <<SubSeq(s, 1, at.val), SubSeq(s, at.val + 2, Len(s))>>

\* Iterator::take(n)
Take(seq, n) == SubSeq(seq, 1, IF Len(seq) < n THEN Len(seq) ELSE n)

----------------------------------------------------------------------------
(* Data: the hierarchy layer store                                          *)

\* mutant of load: layers are scanned from the last to the first
RECURSIVE load_last_wins(_, _, _)
load_last_wins(self, T, key) ==
    IF self = <<>> THEN Ok(None)
    ELSE IF key \in DOMAIN self[Len(self)]
    THEN LET r == Deserialize(T, self[Len(self)][key])
         IN  IF r.tag = "Err" THEN r ELSE Ok(Some(r.val))
    ELSE load_last_wins(SubSeq(self, 1, Len(self) - 1), T, key)

\* mutant of load: a holding layer whose value does not deserialize is passed
\* over
RECURSIVE load_skips_misfit(_, _, _)
load_skips_misfit(self, T, key) ==
    IF self = <<>> THEN Ok(None)
    ELSE IF key \in DOMAIN Head(self) /\ Deserialize(T, Head(self)[key]).tag = "Ok"
    THEN Ok(Some(Deserialize(T, Head(self)[key]).val))
    ELSE load_skips_misfit(Tail(self), T, key)

\* Data::load
RECURSIVE load(_, _, _)
load(self, T, key) ==
    IF self = <<>> THEN Ok(None)
    ELSE IF key \in DOMAIN Head(self)
    THEN LET r == Deserialize(T, Head(self)[key])
         IN  IF r.tag = "Err" THEN r ELSE Ok(Some(r.val))
    ELSE load(Tail(self), T, key)

\* mutant of load_or_default: a value that does not deserialize is replaced by
\* the default as well
load_or_default_on_error(self, T, key) ==
    LET r == load(self, T, key)
    IN  IF r.tag = "Err" THEN Ok(Default(T))
        ELSE Ok(IF r.val = None THEN Default(T) ELSE r.val.val)

\* Data::load_or_default
load_or_default(self, T, key) ==
    LET r == load(self, T, key)
    IN  IF r.tag = "Err" THEN r
        ELSE Ok(IF r.val = None THEN Default(T) ELSE r.val.val)

RECURSIVE load_array_from(_, _, _, _)
load_array_from(layers, T, key, out) ==
    IF layers = <<>> THEN Ok(out)
    ELSE IF key \in DOMAIN Head(layers)
    THEN LET r == DeserializeVec(T, Head(layers)[key])
         IN  IF r.tag = "Err" THEN r
             ELSE load_array_from(Tail(layers), T, key, out \o r.val)
    ELSE load_array_from(Tail(layers), T, key, out)

\* mutant of load_array: the first layer holding the key decides alone
RECURSIVE load_array_first_only(_, _, _)
load_array_first_only(self, T, key) ==
    IF self = <<>> THEN Ok(<<>>)
    ELSE IF key \in DOMAIN Head(self)
    THEN DeserializeVec(T, Head(self)[key])
    ELSE load_array_first_only(Tail(self), T, key)

\* Data::load_array
load_array(self, T, key) == load_array_from(self, T, key, <<>>)

\* mutant of spec_value: an array part is resolved like a plain part
spec_value_array_as_plain(self, env, part) ==
    LET it == SplitN2(part, ":")
        key == it[1]
    IN  IF Len(it) = 1 \/ it[2] = <<"a", "r", "r", "a", "y">>
        THEN LET r == load(self, "Value", key)
             IN  IF r.tag = "Err" THEN r
                 ELSE IF r.val = None THEN Err("missing key")
                 ELSE Ok(r.val.val)
        ELSE IF it[2] = <<"e", "n", "v">>
        THEN IF key \in DOMAIN env THEN Ok(Str(env[key]))
             ELSE Err("failed to load environment variable")
        ELSE Err("bad type")

\* the value of one `key` or `key:kind` part of a directive
spec_value(self, env, part) ==
    LET it == SplitN2(part, ":")
        key == it[1]
    IN  IF Len(it) = 1
        THEN LET r == load(self, "Value", key)
             IN  IF r.tag = "Err" THEN r
                 ELSE IF r.val = None THEN Err("missing key")
                 ELSE Ok(r.val.val)
        ELSE IF it[2] = <<"a", "r", "r", "a", "y">>
        THEN LET r == load_array(self, "Value", key)
             IN  IF r.tag = "Err" THEN r ELSE Ok(Sequence(r.val))
        ELSE IF it[2] = <<"e", "n", "v">>
        THEN IF key \in DOMAIN env THEN Ok(Str(env[key]))
             ELSE Err("failed to load environment variable")
        ELSE Err("bad type")

\* mutant of spec_parts: a part that fails is passed over
RECURSIVE spec_parts_skips_failures(_, _, _, _)
spec_parts_skips_failures(self, env, parts, m) ==
    IF parts = <<>> THEN Ok(m)
    ELSE LET part == Trim(Head(parts))
         IN  IF part = <<>> THEN spec_parts_skips_failures(self, env, Tail(parts), m)
             ELSE LET v == spec_value(self, env, part)
                  IN  IF v.tag = "Err"
                      THEN spec_parts_skips_failures(self, env, Tail(parts), m)
                      ELSE spec_parts_skips_failures(self, env, Tail(parts),
                                      MapInsert(m, SplitN2(part, ":")[1], v.val))

\* the loop over the parts of the directive: blank parts are skipped, an
\* error ends the call, every other part inserts its key
RECURSIVE spec_parts(_, _, _, _)
spec_parts(self, env, parts, m) ==
    IF parts = <<>> THEN Ok(m)
    ELSE LET part == Trim(Head(parts))
         IN  IF part = <<>> THEN spec_parts(self, env, Tail(parts), m)
             ELSE LET v == spec_value(self, env, part)
                  IN  IF v.tag = "Err" THEN v
                      ELSE spec_parts(self, env, Tail(parts),
                                      MapInsert(m, SplitN2(part, ":")[1], v.val))

\* mutant of spec_lines: the loop goes on after the first line with the header
RECURSIVE spec_lines_no_break(_, _, _)
spec_lines_no_break(self, env, lines) ==
    IF lines = <<>> THEN Ok(EmptyMap)
    ELSE LET line == Head(lines)
             index == Find(line, HEADER)
         IN  IF index = None THEN spec_lines_no_break(self, env, Tail(lines))
             ELSE LET spec == Trim(SubSeq(line, index.val + Len(HEADER) + 1, Len(line)))
                      r == spec_parts(self, env, Split(spec, ","), EmptyMap)
                      rest == spec_lines_no_break(self, env, Tail(lines))
                  IN  IF r.tag = "Err" THEN r
                      ELSE IF rest.tag = "Err" THEN rest
                      ELSE Ok(MapExtend(r.val, rest.val))

\* the loop over the lines: a line without the header is passed over, the
\* first line with it is processed and ends the loop
RECURSIVE spec_lines(_, _, _)
spec_lines(self, env, lines) ==
    IF lines = <<>> THEN Ok(EmptyMap)
    ELSE LET line == Head(lines)
             index == Find(line, HEADER)
         IN  IF index = None THEN spec_lines(self, env, Tail(lines))
             ELSE LET spec == Trim(SubSeq(line, index.val + Len(HEADER) + 1, Len(line)))
                  IN  spec_parts(self, env, Split(spec, ","), EmptyMap)

\* Data::load_from_spec
load_from_spec(self, env, text) == spec_lines(self, env, Take(Split(text, "\n"), 5))

----------------------------------------------------------------------------
(* The inputs of the layer store                                           *)

\* number of layers of a store
MaxLayers == 2
\* number of comma-separated parts of a directive line
MaxParts == 2

KeyA == <<"a">>
KeyB == <<"b">>
KeyM == <<"m">>
EnvE == <<"E">>
EnvU == <<"U">>

S1 == Str("one")
S2 == Str("two")
Q1 == Sequence(<<S1>>)
Q2 == Sequence(<<S2, S1>>)

\* the layers: key a absent or holding any of the four values, key b absent
\* or holding a sequence; key m is in no layer
Layers ==
    {[k \in D |-> IF k = KeyA THEN va ELSE Q1] :
        D \in SUBSET {KeyA, KeyB}, va \in {S1, S2, Q1, Q2}}

RECURSIVE SeqsUpTo(_, _)
SeqsUpTo(S, n) ==
    IF n = 0 THEN {<<>>}
    ELSE LET shorter == SeqsUpTo(S, n - 1)
         IN  shorter \cup {Append(q, x) : q \in {r \in shorter : Len(r) = n - 1}, x \in S}

Stores == SeqsUpTo(Layers, MaxLayers)

\* the stores directives are resolved on: key a absent or holding one string
\* or either sequence
DirectiveStores ==
    SeqsUpTo({l \in Layers : KeyA \in DOMAIN l => l[KeyA] # S2}, MaxLayers)

\* the stores the lookups are made on: those, and stores of layers in which
\* key a holds null, the default of Value, or a string
HierStores ==
    Stores \cup SeqsUpTo({[k \in {KeyA} |-> Null], [k \in {KeyA} |-> S1]}, MaxLayers)

\* Data::new
Data_new(layers) == layers

\* the environment: E is set, U is not
Environment == [n \in {EnvE} |-> "e"]

Types == {"Value", "String"}
LookupKeys == {KeyA, KeyB, KeyM}

\* the forms a part of a directive line takes, each with the key and kind it
\* was written from
Part(text, key, kind) == [text |-> text, key |-> key, kind |-> kind]

PartForms ==
    {Part(<<"a">>, KeyA, "plain"),
     Part(<<"b">>, KeyB, "plain"),
     Part(<<"m">>, KeyM, "plain"),
     Part(<<"a", ":", "a", "r", "r", "a", "y">>, KeyA, "array"),
     Part(<<"E", ":", "e", "n", "v">>, EnvE, "env"),
     Part(<<"U", ":", "e", "n", "v">>, EnvU, "env"),
     Part(<<"a", ":", "l", "i", "s", "t">>, KeyA, "other"),
     Part(<<"a", ":">>, KeyA, "other"),
     Part(<<"a", ":", "a", "r", "r", "a", "y", ":", "x">>, KeyA, "other"),
     Part(<<>>, <<>>, "blank")}

RECURSIVE JoinParts(_)
JoinParts(parts) ==
    IF parts = <<>> THEN <<>>
    ELSE IF Len(parts) = 1 THEN parts[1].text
    ELSE parts[1].text \o <<",", " ">> \o JoinParts(Tail(parts))

\* a line `# quickcfg: part, part`
DirectiveLine(parts) == <<"#", " ">> \o HEADER \o <<" ">> \o JoinParts(parts)

\* a line without the header
PlainLine == <<"#", " ", "c", "f", "g">>

\* a text: its lines, each a plain line or the parts of a directive line
Line(header, parts) == [header |-> header, parts |-> parts]

LineText(line) == IF line.header THEN DirectiveLine(line.parts) ELSE PlainLine

RECURSIVE JoinLines(_)
JoinLines(lines) ==
    IF lines = <<>> THEN <<>>
    ELSE IF Len(lines) = 1 THEN LineText(lines[1])
    ELSE LineText(lines[1]) \o <<"\n">> \o JoinLines(Tail(lines))

Directives == SeqsUpTo(PartForms, MaxParts)

\* number of plain lines a text starts with
MaxLead == 5

\* texts of several lines: plain lines, a directive line asking for a or for
\* m, and then no further line or a second directive line
LongTexts ==
    {[i \in 1..n |-> Line(FALSE, <<>>)] \o <<Line(TRUE, <<p>>)>> \o rest :
        n \in 0..MaxLead,
        p \in {Part(<<"a">>, KeyA, "plain"), Part(<<"m">>, KeyM, "plain")},
        rest \in {<<>>} \cup
                 {<<Line(TRUE, <<q>>)>> :
                     q \in {Part(<<"b">>, KeyB, "plain"), Part(<<"m">>, KeyM, "plain"),
                            Part(<<"U", ":", "e", "n", "v">>, EnvU, "env")}}}

\* the texts: one directive line; a plain line and then a directive line of at
\* most one part; a plain line alone; the texts of several lines
Texts ==
    {<<Line(TRUE, parts)>> : parts \in Directives}
        \cup {<<Line(FALSE, <<>>), Line(TRUE, parts)>> : parts \in SeqsUpTo(PartForms, 1)}
        \cup {<<Line(FALSE, <<>>)>>}
        \cup LongTexts

\* the texts the lookups' state machine reads directives from
SampleTexts ==
    {<<Line(TRUE, <<Part(<<"a">>, KeyA, "plain")>>)>>,
     <<Line(FALSE, <<>>)>>}

----------------------------------------------------------------------------
(* The layer store's state machine: the store is built once, then read     *)

Constructed(stores, texts) ==
    /\ data \in {Data_new(layers) : layers \in stores}
    /\ environ = Environment
    /\ directive \in texts
    /\ content = JoinLines(directive)
    /\ templates = <<>>
    /\ files = EmptyMap
    /\ first = None
    /\ pending = <<>>
    /\ order = <<>>
    /\ call = Idle
    /\ ret = None
    /\ ledger = State_default
    /\ snap = DiskState_default
    /\ mutated = FALSE
    /\ merged = FALSE
    /\ mergedOnce = {}
    /\ written = NoWrites
    /\ nops = 0

ledgerVars == <<ledger, history, nops>>

\* what a lookup leaves alone besides the store it borrows
lookupFrame == <<environ, content, directive, templates, files, ledgerVars, mergeVars>>

\* mutant of borrowed: the lookup's iteration consumes the first layer
borrowed_consumes(self) == IF self = <<>> THEN self ELSE Tail(self)

\* the store after a lookup: every lookup takes `&self` and iterates over
\* `&self.0`, so the layers it was called on are the layers it leaves
borrowed(self) == self

\* the first lookup is remembered with its result
Remember(c, r) == IF first = None THEN Some([call |-> c, ret |-> r]) ELSE first

Load ==
    \E T \in Types, key \in LookupKeys :
        /\ call' = [op |-> "load", type |-> T, key |-> key]
        /\ ret' = load(data, T, key)
        /\ data' = borrowed(data)
        /\ first' = Remember(call', ret')
        /\ UNCHANGED lookupFrame

LoadOrDefault ==
    \E T \in Types, key \in LookupKeys :
        /\ call' = [op |-> "load_or_default", type |-> T, key |-> key]
        /\ ret' = load_or_default(data, T, key)
        /\ data' = borrowed(data)
        /\ first' = Remember(call', ret')
        /\ UNCHANGED lookupFrame

LoadArray ==
    \E T \in Types, key \in LookupKeys :
        /\ call' = [op |-> "load_array", type |-> T, key |-> key]
        /\ ret' = load_array(data, T, key)
        /\ data' = borrowed(data)
        /\ first' = Remember(call', ret')
        /\ UNCHANGED lookupFrame

LoadFromSpec ==
    /\ call' = [op |-> "load_from_spec"]
    /\ ret' = load_from_spec(data, environ, content)
    /\ data' = borrowed(data)
    /\ first' = Remember(call', ret')
    /\ UNCHANGED lookupFrame

NextHier ==
    \/ Load
    \/ LoadOrDefault
    \/ LoadArray
    \/ LoadFromSpec

InitHier == Constructed(HierStores, SampleTexts)

SpecHier == InitHier /\ [][NextHier]_vars

\* load_from_spec alone, over every text
InitDirective == Constructed(DirectiveStores, Texts)

NextDirective == LoadFromSpec

SpecDirective == InitDirective /\ [][NextDirective]_vars

----------------------------------------------------------------------------
(* The hierarchy loader: hierarchy::load                                   *)

\* number of templates handed to the loader
MaxTemplates == 2

\* serde_yaml::Value::Mapping
Mapping(m) == [kind |-> "Mapping", m |-> m]

\* RelativePathBuf::to_path(root): the relative path below the root
to_path(path, root) == root \o path

\* Template::render_as_relative_path(facts, environment): the template fails
\* to render, renders to no path, or renders to a relative path
render_as_relative_path(h) == h.rendered

\* serde_yaml::from_reader(file): the document's top-level value, or a parse
\* error for a file that is not a document
from_reader(file) == IF file.yaml THEN Ok(file.value) ELSE Err("parse error")

\* load_mapping(path)
load_mapping(fs, path) ==
    IF path \notin DOMAIN fs THEN Err("failed to open file")
    ELSE LET r == from_reader(fs[path])
         IN  IF r.tag = "Err" THEN r
             ELSE IF r.val.kind = "Mapping" THEN Ok(r.val.m)
             ELSE Err("exists, but is not a mapping")

\* mutant of load_stages: a file that fails to load is passed over
RECURSIVE load_stages_skips_failures(_, _, _, _)
load_stages_skips_failures(it, root, fs, stages) ==
    IF it = <<>> THEN Ok(Data_new(stages))
    ELSE LET r == render_as_relative_path(Head(it))
         IN  IF r.tag = "Err" THEN r
             ELSE IF r.val = None THEN load_stages_skips_failures(Tail(it), root, fs, stages)
             ELSE LET path == to_path(r.val.val, root)
                      map == load_mapping(fs, path)
                  IN  IF map.tag = "Err"
                      THEN load_stages_skips_failures(Tail(it), root, fs, stages)
                      ELSE load_stages_skips_failures(Tail(it), root, fs,
                                                      Append(stages, map.val))

\* the loop over the templates: a template without a path is passed over, a
\* failure ends the load, a loaded mapping is pushed onto the stages
RECURSIVE load_stages(_, _, _, _)
load_stages(it, root, fs, stages) ==
    IF it = <<>> THEN Ok(Data_new(stages))
    ELSE LET r == render_as_relative_path(Head(it))
         IN  IF r.tag = "Err" THEN r
             ELSE IF r.val = None THEN load_stages(Tail(it), root, fs, stages)
             ELSE LET path == to_path(r.val.val, root)
                      map == load_mapping(fs, path)
                  IN  IF map.tag = "Err"
                      THEN Err([msg |-> "failed to load", path |-> path,
                                cause |-> map.err])
                      ELSE load_stages(Tail(it), root, fs, Append(stages, map.val))

\* hierarchy::load(it, root, facts, environment)
load_hierarchy(it, root, fs) == load_stages(it, root, fs, <<>>)

Root == <<"r">>
PathP == <<"p">>
PathQ == <<"q">>

\* a template, by what it renders to
Template(rendered) == [rendered |-> rendered]

Templates ==
    {Template(Err("render")), Template(Ok(None)),
     Template(Ok(Some(PathP))), Template(Ok(Some(PathQ)))}

\* a file: text that is no document, a document that is a scalar, and
\* documents that are mappings
Unparsable == [yaml |-> FALSE]
Document(value) == [yaml |-> TRUE, value |-> value]

Files ==
    {Unparsable, Document(S1),
     Document(Mapping([k \in {KeyA} |-> S1])),
     Document(Mapping([k \in {KeyA, KeyB} |-> IF k = KeyA THEN S2 ELSE Q1]))}

\* the file systems: each of the two paths below the root is missing or
\* holds one of the files
FileSystems == Maps({to_path(PathP, Root), to_path(PathQ, Root)}, Files)

InitLoader ==
    /\ templates \in SeqsUpTo(Templates, MaxTemplates)
    /\ files \in FileSystems
    /\ first = None
    /\ pending = <<>>
    /\ order = <<>>
    /\ data = <<>>
    /\ environ = Environment
    /\ directive = <<>>
    /\ content = <<>>
    /\ call = Idle
    /\ ret = None
    /\ ledger = State_default
    /\ snap = DiskState_default
    /\ mutated = FALSE
    /\ merged = FALSE
    /\ mergedOnce = {}
    /\ written = NoWrites
    /\ nops = 0

\* the store the caller holds is the one the load returned, when it returned one
LoadHierarchy ==
    /\ call.op = "new"
    /\ call' = [op |-> "load_hierarchy"]
    /\ ret' = load_hierarchy(templates, Root, files)
    /\ data' = IF ret'.tag = "Ok" THEN ret'.val ELSE data
    /\ UNCHANGED <<environ, content, directive, templates, files, first, ledgerVars,
                   mergeVars>>

NextLoader == LoadHierarchy

SpecLoader == InitLoader /\ [][NextLoader]_vars

----------------------------------------------------------------------------
(* Units of work with a sub-ledger each, and the aggregator that merges the *)
(* sub-ledgers one at a time with extend                                    *)

\* number of units of work
MaxUnits == 2

Units == 1..MaxUnits

\* the snapshots the aggregator starts from: empty, or one entry at time 0 in
\* last_update or once
AggregateSnaps ==
    {d \in DiskStates : d.hashes = EmptyMap
                        /\ \A f \in {"last_update", "once"} :
                               \A k \in DOMAIN d[f] : d[f][k] = 0}

\* the sub-ledger a unit starts with: a default ledger, or a clean ledger
\* read from a snapshot that has an entry
UnitStarts ==
    {State_default,
     to_state([DiskState_default EXCEPT !.last_update = [k \in {"y"} |-> 0]])}

InitMerge ==
    /\ snap \in AggregateSnaps
    /\ ledger = to_state(snap)
    /\ pending \in [Units -> UnitStarts]
    /\ order = <<>>
    /\ mutated = FALSE
    /\ merged = FALSE
    /\ mergedOnce = {}
    /\ written = NoWrites
    /\ nops = 0
    /\ call = Idle
    /\ ret = None
    /\ data = <<>>
    /\ environ = EmptyMap
    /\ content = <<>>
    /\ directive = <<>>
    /\ templates = <<>>
    /\ files = EmptyMap
    /\ first = None

Merged == {order[i] : i \in 1..Len(order)}

mergeFrame == <<snap, mutated, merged, mergedOnce, written, nops, hierVars>>

\* a unit whose sub-ledger is not merged yet and has not been written to
\* reports its work on its own sub-ledger
UnitTouch(u) ==
    \E id \in Ids, now \in Times :
        /\ u \notin Merged /\ ~pending[u].dirty
        /\ pending' = [pending EXCEPT ![u] = touch(@, id, now)]
        /\ call' = [op |-> "unit_touch", unit |-> u, id |-> id, now |-> now]
        /\ ret' = None
        /\ UNCHANGED <<ledger, order, mergeFrame>>

UnitTouchOnce(u) ==
    \E id \in Ids, now \in Times :
        /\ u \notin Merged /\ ~pending[u].dirty
        /\ pending' = [pending EXCEPT ![u] = touch_once(@, id, now)]
        /\ call' = [op |-> "unit_touch_once", unit |-> u, id |-> id, now |-> now]
        /\ ret' = None
        /\ UNCHANGED <<ledger, order, mergeFrame>>

UnitTouchHash(u) ==
    /\ u \notin Merged /\ ~pending[u].dirty
    /\ pending' = [pending EXCEPT ![u] = touch_hash(@, "x", V1, 0)]
    /\ call' = [op |-> "unit_touch_hash", unit |-> u, id |-> "x", hash |-> V1, now |-> 0]
    /\ ret' = None
    /\ UNCHANGED <<ledger, order, mergeFrame>>

\* the aggregator merges the sub-ledger of a unit, once per unit
MergeUnit(u) ==
    /\ u \notin Merged
    /\ ledger' = extend(ledger, pending[u])
    /\ order' = Append(order, u)
    /\ call' = [op |-> "extend", other |-> pending[u]]
    /\ ret' = None
    /\ UNCHANGED <<pending, mergeFrame>>

NextMerge ==
    \E u \in Units :
        \/ UnitTouch(u)
        \/ UnitTouchOnce(u)
        \/ UnitTouchHash(u)
        \/ MergeUnit(u)

SpecMerge == InitMerge /\ [][NextMerge]_vars

----------------------------------------------------------------------------
(* Properties of the ledger, checked under Spec                            *)

\* a step of Next that is a call on the ledger
IsCall(op) == call'.op = op /\ (nops' = nops + 1 \/ op = "serialize")

\* C1: in every reachable state dirty is true exactly when a mutating call
\* (touch, touch_once, touch_hash, or an extend with a dirty argument) has been
\* made since construction, and no step takes dirty from true back to false.
C1_DirtyIffMutated ==
    /\ [](ledger.dirty <=> mutated)
    /\ [][ledger.dirty => ledger'.dirty]_vars

\* C1 witness: the ledger became dirty through an extend with a dirty argument
\* and a later query left it dirty.
C1_Witness ==
    /\ nops = 2
    /\ ledger.dirty /\ mutated /\ merged
    /\ call.op \in {"last_update", "has_run_once", "is_hash_fresh"}

\* C2: serialize returns None when the ledger is clean, and otherwise a
\* DiskState whose three maps are the ledger's three maps, entry for entry.
C2_Serialize ==
    call.op = "serialize" =>
        IF ~ledger.dirty
        THEN ret = None
        ELSE /\ ret.tag = "Some"
             /\ \A f \in {"last_update", "once", "hashes"} :
                    /\ DOMAIN ret.val[f] = DOMAIN ledger[f]
                    /\ \A k \in DOMAIN ledger[f] : ret.val[f][k] = ledger[f][k]

\* C2 witness: a dirty ledger with entries in all three maps was serialized.
C2_Witness ==
    /\ call.op = "serialize"
    /\ ret.tag = "Some"
    /\ \A f \in {"last_update", "once", "hashes"} : DOMAIN ret.val[f] # {}

\* C3: an extend whose argument is clean changes none of last_update, once,
\* hashes and dirty, whatever the argument's maps hold.
C3_ExtendCleanIsNoop ==
    [][(IsCall("extend") /\ ~call'.other.dirty) => ledger' = ledger]_vars

\* C3 witness: a clean argument holding an entry the ledger lacks was passed to
\* extend on a clean ledger.
C3_Witness ==
    /\ call.op = "extend"
    /\ ~call.other.dirty
    /\ \E k \in DOMAIN call.other.once : k \notin DOMAIN ledger.once
    /\ ~ledger.dirty

\* the key-wise union of two maps in which the second map's value wins
UnionRightWins(result, mine, theirs) ==
    /\ DOMAIN result = (DOMAIN mine) \cup (DOMAIN theirs)
    /\ \A k \in DOMAIN theirs : result[k] = theirs[k]
    /\ \A k \in (DOMAIN mine) \ (DOMAIN theirs) : result[k] = mine[k]

\* C4: an extend whose argument is dirty sets dirty and makes last_update and
\* once the key-wise union of both ledgers' maps; on a key of both the
\* argument's value replaces the ledger's, a key of the ledger alone keeps its value.
C4_ExtendDirtyMerges ==
    [][(IsCall("extend") /\ call'.other.dirty) =>
            /\ ledger'.dirty
            /\ UnionRightWins(ledger'.last_update, ledger.last_update, call'.other.last_update)
            /\ UnionRightWins(ledger'.once, ledger.once, call'.other.once)]_vars

\* C4 witness: the argument's older timestamp replaced the ledger's newer one
\* for a shared key while another key of the ledger kept its value.
C4_Witness ==
    /\ call.op = "extend"
    /\ call.other.dirty
    /\ "x" \in DOMAIN call.other.last_update
    /\ call.other.last_update["x"] = 0
    /\ "x" \in DOMAIN written.last_update
    /\ written.last_update["x"] = 1
    /\ ledger.last_update = [k \in {"x", "y"} |-> 0]

\* C5: an id that was in the loaded once map or was given to touch_once has
\* has_run_once true from then on, also in the serialized snapshot; no step
\* unsets a marker; an id never loaded, touched or merged in has it false.
C5_OnceMonotonic ==
    /\ [](\A id \in Ids :
            /\ (id \in DOMAIN snap.once \/ id \in DOMAIN written.once)
                   => /\ has_run_once(ledger, id)
                      /\ (call.op = "serialize" /\ ret # None) => id \in DOMAIN ret.val.once
            /\ (id \notin DOMAIN snap.once /\ id \notin DOMAIN written.once
                    /\ id \notin mergedOnce) => ~has_run_once(ledger, id)
            /\ (call.op = "has_run_once" /\ call.id = id)
                   => ret = Some(has_run_once(ledger, id)))
    /\ [][\A id \in Ids : has_run_once(ledger, id) => has_run_once(ledger', id)]_vars

\* C5 witness: x was marked by touch_once, a dirty ledger without x was merged
\* in afterwards, and the serialized snapshot still holds x but not y.
C5_Witness ==
    /\ call.op = "serialize"
    /\ merged
    /\ "x" \in DOMAIN written.once
    /\ "x" \notin mergedOnce
    /\ ret # None
    /\ DOMAIN ret.val.once = {"x"}

\* C6 as stated: after touch_hash(id, v1), is_hash_fresh(id, v) is true for
\* v1 and false for every other value.
C6_FreshOnlyForSameValue ==
    call.op = "touch_hash" =>
        \A v \in Values : is_hash_fresh(ledger, call.id, v) <=> (v = call.hash)

\* C6, amended: is_hash_fresh(id, v) is true exactly when id has a record whose
\* digest is v's fingerprint; after touch_hash(id, v1) it is true for v1 and
\* false for every value whose fingerprint differs from v1's; and only a
\* touch_hash on the same id changes its answer.
C6_FreshIffSameFingerprint ==
    /\ [](/\ \A id \in Ids, v \in Values :
                is_hash_fresh(ledger, id, v) <=>
                    \E k \in DOMAIN ledger.hashes :
                        k = id /\ ledger.hashes[k].hash = Fingerprint(v)
          /\ call.op = "is_hash_fresh"
                => ret = Some(is_hash_fresh(ledger, call.id, call.hash))
          /\ call.op = "touch_hash"
                => \A v \in Values :
                      is_hash_fresh(ledger, call.id, v)
                          <=> (Fingerprint(v) = Fingerprint(call.hash)))
    /\ [][\A id \in Ids, v \in Values :
            (is_hash_fresh(ledger', id, v) # is_hash_fresh(ledger, id, v))
                => (IsCall("touch_hash") /\ call'.id = id)]_vars

\* C6 witness: touch_hash stored V2 for an id and is_hash_fresh then answered
\* true for the different value V3, whose fingerprint is V2's, while V1 is
\* not fresh for that id.
C6_Witness ==
    /\ call.op = "is_hash_fresh"
    /\ call.hash = V3
    /\ V3 # V2
    /\ call.id \in DOMAIN written.hashes
    /\ written.hashes[call.id].value = V2
    /\ ret = Some(TRUE)
    /\ ~is_hash_fresh(ledger, call.id, V1)

\* the value a map of the serialized snapshot must hold for a key
ExpectedEntry(f, k) ==
    IF k \in DOMAIN written[f]
    THEN Some(IF f = "hashes"
              THEN Hashed(Fingerprint(written[f][k].value), written[f][k].now)
              ELSE written[f][k])
    ELSE MapGet(snap[f], k)

\* C7: after a non-empty sequence of touch, touch_once and touch_hash calls on
\* a ledger built from a snapshot, serialize returns a snapshot that holds every
\* untouched entry of the original with its value and every touched key with
\* the value its last call wrote.
C7_RoundTrip ==
    (call.op = "serialize" /\ mutated /\ ~merged) =>
        /\ ret.tag = "Some"
        /\ \A f \in {"last_update", "once", "hashes"} :
              \A k \in Ids : MapGet(ret.val[f], k) = ExpectedEntry(f, k)

\* C7 witness: the snapshot held a once entry for x, two touch calls wrote y's
\* last_update (the later call an earlier timestamp), and the serialized
\* snapshot holds the untouched entry and the second write.
C7_Witness ==
    /\ call.op = "serialize"
    /\ ~merged
    /\ nops = 2
    /\ snap.once = [k \in {"x"} |-> 1]
    /\ written.last_update = [k \in {"y"} |-> 0]
    /\ written.once = EmptyMap
    /\ written.hashes = EmptyMap
    /\ ret = Some([last_update |-> [k \in {"y"} |-> 0],
                   once |-> [k \in {"x"} |-> 1],
                   hashes |-> EmptyMap])

----------------------------------------------------------------------------
(* Properties of the layer store, checked under SpecHier                   *)

\* the layers, by position, that hold a key
Holders(key) == {i \in 1..Len(data) : key \in DOMAIN data[i]}

FirstHolder(key) == CHOOSE i \in Holders(key) : \A j \in Holders(key) : i <= j

\* a value in the requested shape
Shaped(T, value) == IF T = "Value" THEN value ELSE value.s

Fits(T, value) == T = "Value" \/ value.kind = "String"

\* C8: load returns the value of the first layer, in stored order, that holds
\* the key, in the requested shape, and returns Ok(None) when no layer holds it.
C8_LoadFirstLayerWins ==
    call.op = "load" =>
        IF Holders(call.key) = {}
        THEN ret = Ok(None)
        ELSE LET value == data[FirstHolder(call.key)][call.key]
             IN  Fits(call.type, value) => ret = Ok(Some(Shaped(call.type, value)))

\* C8 witness: two layers hold a with different strings and load returned the
\* first layer's.
C8_Witness ==
    /\ call.op = "load"
    /\ call.key = KeyA
    /\ call.type = "String"
    /\ Len(data) = 2
    /\ KeyA \in DOMAIN data[1] /\ data[1][KeyA] = S2
    /\ KeyA \in DOMAIN data[2] /\ data[2][KeyA] = S1
    /\ ret = Ok(Some("two"))

\* the elements, in layer order, of the sequences layers 1..n hold for a key
RECURSIVE ItemsUpTo(_, _, _)
ItemsUpTo(n, T, key) ==
    IF n = 0 THEN <<>>
    ELSE ItemsUpTo(n - 1, T, key)
            \o (IF key \in DOMAIN data[n]
                THEN [i \in 1..Len(data[n][key].items) |-> Shaped(T, data[n][key].items[i])]
                ELSE <<>>)

\* C9: when every layer holding the key holds a sequence for it, load_array
\* returns their concatenation in layer order, each layer's order kept and
\* nothing dropped; when no layer holds the key it returns the empty sequence.
C9_LoadArrayConcatenates ==
    call.op = "load_array" =>
        /\ Holders(call.key) = {} => ret = Ok(<<>>)
        /\ (\A i \in Holders(call.key) : data[i][call.key].kind = "Sequence")
               => ret = Ok(ItemsUpTo(Len(data), call.type, call.key))

\* C9 witness: two layers hold sequences for a that share an element, and
\* load_array returned both in layer order with the repeated element kept.
C9_Witness ==
    /\ call.op = "load_array"
    /\ call.key = KeyA
    /\ call.type = "String"
    /\ Len(data) = 2
    /\ KeyA \in DOMAIN data[1] /\ data[1][KeyA] = Q2
    /\ KeyA \in DOMAIN data[2] /\ data[2][KeyA] = Q1
    /\ ret = Ok(<<"two", "one", "one">>)

----------------------------------------------------------------------------
(* Properties of load_from_spec, checked under SpecDirective               *)

\* the lines of the text among the first five that were written with the header
HeaderLines == {i \in 1..Len(directive) : i <= 5 /\ directive[i].header}

\* the parts of the first of them
DirectiveParts ==
    directive[CHOOSE i \in HeaderLines : \A j \in HeaderLines : i <= j].parts

NonBlank == {i \in 1..Len(DirectiveParts) : DirectiveParts[i].kind # "blank"}

\* what a part resolves to by its kind, when it resolves
PartValue(part) ==
    CASE part.kind = "plain" ->
            LET r == load(data, "Value", part.key)
            IN  IF r.tag = "Ok" /\ r.val # None THEN Ok(r.val.val) ELSE Err("plain")
      [] part.kind = "array" ->
            LET r == load_array(data, "Value", part.key)
            IN  IF r.tag = "Ok" THEN Ok(Sequence(r.val)) ELSE Err("array")
      [] part.kind = "env" ->
            IF part.key \in DOMAIN environ THEN Ok(Str(environ[part.key])) ELSE Err("env")
      [] OTHER -> Err("kind")

Succeeded == call.op = "load_from_spec" /\ ret.tag = "Ok" /\ HeaderLines # {}

\* C10 as stated: a successful load_from_spec returns a mapping whose keys are
\* the keys of the non-blank parts, and every part's key holds the value of
\* that part's kind: load(key), the sequence load_array(key), or the
\* environment variable.
C10_EveryPartDecides ==
    Succeeded =>
        /\ DOMAIN ret.val = {DirectiveParts[i].key : i \in NonBlank}
        /\ \A i \in NonBlank :
              Ok(ret.val[DirectiveParts[i].key]) = PartValue(DirectiveParts[i])

\* C10, amended: the keys of the mapping are the keys of the non-blank parts,
\* and each key holds the value of the last part written for it.
C10_LastPartDecides ==
    Succeeded =>
        /\ DOMAIN ret.val = {DirectiveParts[i].key : i \in NonBlank}
        /\ \A i \in NonBlank :
              (\A j \in NonBlank : DirectiveParts[j].key = DirectiveParts[i].key => j <= i)
                  => Ok(ret.val[DirectiveParts[i].key]) = PartValue(DirectiveParts[i])

\* C10 witness: the line `a:array, a` over two layers holding different
\* sequences for a gave one entry, a, holding the first layer's value and not
\* the merged sequence.
C10_Witness ==
    /\ Succeeded
    /\ Len(DirectiveParts) = 2
    /\ DirectiveParts[1].kind = "array" /\ DirectiveParts[1].key = KeyA
    /\ DirectiveParts[2].kind = "plain" /\ DirectiveParts[2].key = KeyA
    /\ Len(data) = 2
    /\ DOMAIN ret.val = {KeyA}
    /\ ret.val[KeyA] = Q1
    /\ load_array(data, "Value", KeyA) = Ok(<<S1, S2, S1>>)

\* a part that cannot be resolved: a plain key no layer holds, an env key
\* whose variable is unset, or a kind that is neither array nor env
Unresolvable(part) ==
    \/ part.kind = "plain" /\ Holders(part.key) = {}
    \/ part.kind = "env" /\ part.key \notin DOMAIN environ
    \/ part.kind = "other"

\* C11: when a part of the processed directive line is a plain key no layer
\* holds, an env key whose variable is unset, or has a kind other than array
\* or env (an empty kind and `array:x` included), load_from_spec returns an
\* error and no mapping.
C11_BadPartFails ==
    (call.op = "load_from_spec" /\ HeaderLines # {}
        /\ \E i \in NonBlank : Unresolvable(DirectiveParts[i]))
        => /\ ret.tag = "Err"
           /\ "val" \notin DOMAIN ret

\* C11 witness: the line `a, a:array:x` over a store holding a failed on its
\* second part although the first had resolved.
C11_Witness ==
    /\ call.op = "load_from_spec"
    /\ HeaderLines = {1}
    /\ Len(DirectiveParts) = 2
    /\ DirectiveParts[1] = Part(<<"a">>, KeyA, "plain")
    /\ Holders(KeyA) # {}
    /\ DirectiveParts[2].text = <<"a", ":", "a", "r", "r", "a", "y", ":", "x">>
    /\ ret = Err("bad type")

----------------------------------------------------------------------------
(* Properties of the hierarchy loader, checked under SpecLoader            *)

\* the templates that render to a path, and the file each of them names
Rendered ==
    {i \in 1..Len(templates) :
        templates[i].rendered.tag = "Ok" /\ templates[i].rendered.val # None}

RenderFails == \E i \in 1..Len(templates) : templates[i].rendered.tag = "Err"

FilePath(i) == Root \o templates[i].rendered.val.val

IsMappingFile(i) ==
    /\ FilePath(i) \in DOMAIN files
    /\ files[FilePath(i)].yaml
    /\ files[FilePath(i)].value.kind = "Mapping"

\* the k-th template that renders to a path
NthRendered(k) ==
    CHOOSE i \in Rendered : Cardinality({j \in Rendered : j <= i}) = k

\* C12: the hierarchy loader returns a store whose layers are, in template
\* order, exactly the mappings of the files of the templates that rendered to
\* a path, templates without a path being skipped without error; when a
\* rendered file cannot be opened or parsed, or is not a mapping, the load
\* returns an error and no store, whatever was loaded before it.
C12_LoaderAllOrNothing ==
    call.op = "load_hierarchy" =>
        /\ (~RenderFails /\ \A i \in Rendered : IsMappingFile(i))
               => ret.tag = "Ok"
        /\ ret.tag = "Ok" =>
               /\ Len(ret.val) = Cardinality(Rendered)
               /\ \A k \in 1..Len(ret.val) :
                      ret.val[k] = files[FilePath(NthRendered(k))].value.m
               /\ data = ret.val
        /\ (\E i \in Rendered : ~IsMappingFile(i)) =>
               /\ ret.tag = "Err"
               /\ "val" \notin DOMAIN ret
               /\ data = <<>>

\* C12 witness: the first template's file was loaded as a layer, the second
\* template's file is a scalar document, and the load failed on it.
C12_Witness ==
    /\ call.op = "load_hierarchy"
    /\ Len(templates) = 2
    /\ Rendered = {1, 2}
    /\ IsMappingFile(1)
    /\ FilePath(2) \in DOMAIN files
    /\ files[FilePath(2)] = Document(S1)
    /\ ret = Err([msg |-> "failed to load", path |-> FilePath(2),
                  cause |-> "exists, but is not a mapping"])

----------------------------------------------------------------------------
(* Further properties of the layer store, checked under SpecHier           *)

\* C13: load_or_default returns the default of the requested type when no
\* layer holds the key, the value of the first layer holding it when that
\* value fits the requested type, and an error, not the default, when it
\* does not fit.
C13_DefaultOnlyForAbsence ==
    call.op = "load_or_default" =>
        IF Holders(call.key) = {}
        THEN ret = Ok(Default(call.type))
        ELSE LET value == data[FirstHolder(call.key)][call.key]
             IN  IF Fits(call.type, value)
                 THEN ret = Ok(Shaped(call.type, value))
                 ELSE ret.tag = "Err" /\ "val" \notin DOMAIN ret

\* C13 witness: a string was asked for under a key whose first holder has a
\* sequence and whose second holder has a string, and the call failed.
C13_Witness ==
    /\ call.op = "load_or_default"
    /\ call.type = "String"
    /\ call.key = KeyA
    /\ Len(data) = 2
    /\ KeyA \in DOMAIN data[1] /\ data[1][KeyA] = Q1
    /\ KeyA \in DOMAIN data[2] /\ data[2][KeyA] = S1
    /\ ret = Err("invalid type")

----------------------------------------------------------------------------
(* Further properties of the ledger, checked under Spec                    *)

\* C15: extend never changes the ledger's hashes, whether or not its argument
\* is dirty: the fingerprint records the argument got from touch_hash are not
\* carried over, so is_hash_fresh answers as before the extend for every id
\* and value, and the hashes map a serialize would write is the one from
\* before the extend.
C15_ExtendKeepsHashes ==
    [][IsCall("extend") =>
          /\ ledger'.hashes = ledger.hashes
          /\ \A id \in Ids, v \in Values :
                 is_hash_fresh(ledger', id, v) = is_hash_fresh(ledger, id, v)
          /\ serialize(ledger') # None
                 => serialize(ledger').val.hashes = ledger.hashes]_vars

\* C15 witness: a dirty argument with a fingerprint record for x was merged
\* and the ledger has no record for x.
C15_Witness ==
    /\ call.op = "extend"
    /\ call.other.dirty
    /\ "x" \in DOMAIN call.other.hashes
    /\ \E v \in Values : is_hash_fresh(call.other, "x", v)
    /\ "x" \notin DOMAIN ledger.hashes
    /\ ledger.dirty

----------------------------------------------------------------------------
(* Further properties of load_from_spec, checked under SpecDirective       *)

\* the first of the first five lines that has the header, as a text of its own
FirstHeaderLine ==
    LineText(directive[CHOOSE i \in HeaderLines : \A j \in HeaderLines : i <= j])

\* C16: load_from_spec looks at the first 5 lines of the text only and
\* processes only the first of them that has the header: the result is the
\* result for that line alone, so a later header line adds no key and raises
\* no error, and the result is the empty mapping, without error, when none of
\* the first 5 lines has the header, also when a later line has it.
C16_FirstHeaderLineOnly ==
    call.op = "load_from_spec" =>
        IF HeaderLines = {}
        THEN ret = Ok(EmptyMap)
        ELSE /\ ret = load_from_spec(data, environ, FirstHeaderLine)
             /\ ret.tag = "Ok"
                   => DOMAIN ret.val = {DirectiveParts[i].key : i \in NonBlank}
             /\ (\A i \in NonBlank : ~Unresolvable(DirectiveParts[i])
                                     /\ DirectiveParts[i].kind # "array")
                   => ret.tag = "Ok"

\* C16 witness: the header is on line 6 only, after five plain lines, the key
\* it asks for is in no layer, and the result is the empty mapping.
C16_Witness ==
    /\ call.op = "load_from_spec"
    /\ Len(directive) = 6
    /\ \A i \in 1..5 : ~directive[i].header
    /\ directive[6] = Line(TRUE, <<Part(<<"m">>, KeyM, "plain")>>)
    /\ ret = Ok(EmptyMap)

----------------------------------------------------------------------------
(* Properties of typed lookups that fail, checked under SpecHier           *)

\* the store cut off after the first layer holding the key
UpToFirstHolder(key) == SubSeq(data, 1, FirstHolder(key))

\* C17: the first layer, in stored order, that holds the key decides load
\* alone: the call fails when that layer's value does not fit the requested
\* type, also when a later layer holds a value that fits, and the result is
\* the result on the store without the layers after the first holder.
C17_FirstHolderDecides ==
    (call.op = "load" /\ Holders(call.key) # {}) =>
        /\ ~Fits(call.type, data[FirstHolder(call.key)][call.key])
               => ret = Err("invalid type")
        /\ Fits(call.type, data[FirstHolder(call.key)][call.key])
               => ret.tag = "Ok" /\ ret.val # None
        /\ ret = load(UpToFirstHolder(call.key), call.type, call.key)

\* C17 witness: a string was asked for, the first layer holds a sequence and
\* the second a string under the key, and load failed.
C17_Witness ==
    /\ call.op = "load"
    /\ call.type = "String"
    /\ call.key = KeyA
    /\ Len(data) = 2
    /\ KeyA \in DOMAIN data[1] /\ data[1][KeyA] = Q2
    /\ KeyA \in DOMAIN data[2] /\ data[2][KeyA] = S2
    /\ ret.tag = "Err"

\* C18: a ledger constructed from a snapshot, or by default, is clean and its
\* three maps are the snapshot's, a field the snapshot document lacks being
\* the empty map; serialize on it before any mutating call returns nothing.
C18_ConstructedClean ==
    /\ call = Idle =>
          /\ ~ledger.dirty
          /\ \A f \in Fields : ledger[f] = snap[f]
          /\ \A D \in SUBSET Fields :
                 DiskState_deserialize([f \in D |-> snap[f]]) = snap
                     => \A f \in Fields \ D : ledger[f] = EmptyMap
          /\ serialize(ledger) = None
    /\ (call.op = "serialize" /\ ~mutated) => ret = None

\* C18 witness: a ledger read from a snapshot with one once entry, and no
\* last_update or hashes field, was serialized after a query and nothing was
\* returned.
C18_Witness ==
    /\ call.op = "serialize"
    /\ nops = 1
    /\ ~mutated
    /\ DOMAIN snap.once = {"x"}
    /\ snap = DiskState_deserialize([f \in {"once"} |-> snap[f]])
    /\ ledger.once = snap.once
    /\ ret = None

\* C19: in every reachable state whose dirty flag is false the ledger's three
\* maps are the maps of the snapshot it was constructed from, and no step
\* changes a map and leaves dirty false: not writing a clean ledger loses no
\* entry.
C19_CleanMeansUnchanged ==
    /\ [](~ledger.dirty => \A f \in Fields : ledger[f] = snap[f])
    /\ [][~ledger'.dirty => \A f \in Fields : ledger'[f] = ledger[f]]_vars

\* C19 witness: after two calls, the second an extend whose argument holds an
\* entry for y, the ledger is clean and holds the snapshot's entry for x alone.
C19_Witness ==
    /\ nops = 2
    /\ call.op = "extend"
    /\ DOMAIN call.other.last_update = {"y"}
    /\ DOMAIN snap.last_update = {"x"}
    /\ ~ledger.dirty
    /\ ledger.last_update = snap.last_update
    /\ serialize(ledger) = None

----------------------------------------------------------------------------
(* Properties of the aggregator, checked under SpecMerge                   *)

MergedMaps == {"last_update", "once"}

\* the merged units whose sub-ledger is dirty, and those of them holding a key
MergedDirty == {u \in Merged : pending[u].dirty}

DirtyHolders(f, k) == {u \in MergedDirty : k \in DOMAIN pending[u][f]}

Position(u) == CHOOSE i \in 1..Len(order) : order[i] = u

LastMerged(S) == CHOOSE u \in S : \A v \in S : Position(v) <= Position(u)

\* no key of a map is held by two of the merged dirty sub-ledgers
NoSharedKey ==
    \A f \in MergedMaps, u \in MergedDirty, v \in MergedDirty :
        u # v => (DOMAIN pending[u][f]) \cap (DOMAIN pending[v][f]) = {}

\* the merge written without the order: each key has the value of the dirty
\* sub-ledger holding it, or the aggregate's own
OrderFree(f) ==
    [k \in (DOMAIN snap[f]) \cup UNION {DOMAIN pending[u][f] : u \in MergedDirty} |->
        IF DirtyHolders(f, k) = {} THEN snap[f][k]
        ELSE pending[CHOOSE u \in DirtyHolders(f, k) : TRUE][f][k]]

\* C20: when one aggregator extends with the units' sub-ledgers one at a time,
\* the keys of its last_update and once maps are its initial keys and the keys
\* of the dirty sub-ledgers merged so far, and its dirty flag says that one of
\* them was dirty; a key held by dirty sub-ledgers has the value of the one
\* merged last, every other key its initial value, so that the maps and the
\* flag are the same for every order when no key is in two dirty sub-ledgers.
C20_MergeOrder ==
    /\ ledger.dirty <=> MergedDirty # {}
    /\ \A f \in MergedMaps :
          /\ DOMAIN ledger[f] =
                 (DOMAIN snap[f]) \cup UNION {DOMAIN pending[u][f] : u \in MergedDirty}
          /\ \A k \in DOMAIN ledger[f] :
                 ledger[f][k] = IF DirtyHolders(f, k) = {} THEN snap[f][k]
                                ELSE pending[LastMerged(DirtyHolders(f, k))][f][k]
          /\ NoSharedKey => ledger[f] = OrderFree(f)

\* C20 witness: both units wrote x at different times, unit 2 was merged
\* first, and the aggregate holds unit 1's time for x.
C20_Witness ==
    /\ order = <<2, 1>>
    /\ pending[1].dirty /\ pending[2].dirty
    /\ "x" \in DOMAIN pending[1].last_update
    /\ "x" \in DOMAIN pending[2].last_update
    /\ pending[1].last_update["x"] # pending[2].last_update["x"]
    /\ ledger.last_update["x"] = pending[1].last_update["x"]
    /\ ledger.dirty

====
